---- MODULE Spec2Model ----
(***************************************************************************)
(* wilton_pdf: the PNG and JPEG pre-flight validators (png_checker.hpp,    *)
(* jpeg_checker.hpp) and the draw_image request that embeds an image into  *)
(* a PDF document held in the handle registry (wiltoncall_pdf.cpp).        *)
(*                                                                         *)
(* libpng, libjpeg, libharu and the staticlib/wilton support libraries are *)
(* not part of the repository.  Their behaviour is modelled at the call    *)
(* sites: a decoder step either completes or raises its error callback,    *)
(* as decided by the image descriptor (what the bytes of the image make    *)
(* the decoder do) or, for allocation failures, by the environment.        *)
(* Strings are sequences of message tokens; appending to a string is       *)
(* sequence concatenation.                                                 *)
(*                                                                         *)
(* check_png_valid, png_src_read_cb and png_error_cb exist twice with the  *)
(* same body, in png_checker.hpp and in wiltoncall_pdf.cpp (lines 74-185,  *)
(* the copy load_image_from_hex calls); one model serves both.             *)
(* A variable of the code that is read before it is written (sigbuf,       *)
(* emgr.jmpbuf) starts a call with any of the contents listed for it.      *)
(***************************************************************************)
EXTENDS Integers, Sequences, FiniteSets, TLC

VARIABLES
    png,        \* the check_png_valid call in progress
    jpg,        \* the check_jpeg_valid call in progress
    first,      \* outcome of the first of two calls on the same buffer
    registry,   \* handles held by doc_registry()
    docs,       \* the HPDF documents
    di,         \* the draw_image request in progress
    rq,         \* the request of another operation in progress
    parked,     \* the validator calls of the thread that is not running
    hook        \* a png_src_read_cb call in progress, with the bytes it moves

vars == <<png, jpg, first, registry, docs, di, rq, parked, hook>>

\* what the steps of check_png_valid leave alone
png_frame == <<jpg, first, registry, docs, di, rq, parked, hook>>

\* what the steps of check_jpeg_valid leave alone
jpeg_frame == <<png, first, registry, docs, di, rq, parked, hook>>

(***************************************************************************)
(* Bounds of the model.                                                    *)
(***************************************************************************)
\* largest image height (rows / scanlines) of a modelled image
MaxHeight == 2
\* bytes the PNG decoder asks of the read hook while reading the header info
InfoReq == 2
\* bytes the PNG decoder asks of the read hook for one row
RowReq == 2
\* bytes the PNG decoder asks of the read hook for the end-of-image metadata
EndReq == 1

(***************************************************************************)
(* Program constants.                                                      *)
(***************************************************************************)
\* std::array<char, 8> sigbuf
SigSize == 8
\* std::array<char, 1024> buf of the read hook
BufSize == 1024
\* 1<<16, the width ceiling
WidthCeiling == 65536
\* passes of an Adam7 interlaced image, as png_set_interlace_handling returns
Adam7Passes == 7

\* the PNG signature png_sig_cmp compares against
PNG_SIG == <<137, 80, 78, 71, 13, 10, 26, 10>>

Zeros8 == <<0, 0, 0, 0, 0, 0, 0, 0>>

Min(a, b) == IF a <= b THEN a ELSE b

(***************************************************************************)
(* Messages.  A message token carries its text and up to three numbers;    *)
(* traced counts how many times TRACEMSG has wrapped it.                   *)
(***************************************************************************)
Msg(text, n1, n2, n3) == [text |-> text, n1 |-> n1, n2 |-> n2, n3 |-> n3, traced |-> 0]

\* TRACEMSG(s): the string with the trace location added to it
TRACEMSG(s) == [k \in 1..Len(s) |-> [s[k] EXCEPT !.traced = @ + 1]]

(***************************************************************************)
(* PNG images.  head is the first min(size, 8) bytes of the buffer;        *)
(* bodyLen the number of bytes after the first 8; width and height what    *)
(* the header declares; corrupt the decoder step at which libpng itself    *)
(* detects a malformed stream (bad CRC and the like); passes the number   *)
(* of passes the image is stored in, 1 when it is not interlaced.  With    *)
(* interlace handling enabled the decoder hands out the rows of one pass   *)
(* after the other: height calls of png_read_rows per pass.  Corruption in *)
(* the rows of a later pass ("later_pass") is met by the decoder when it   *)
(* decodes those rows; png_read_end, which skips image data not yet read,  *)
(* does not raise it.                                                      *)
(***************************************************************************)
Widths == {1, WidthCeiling - 1, WidthCeiling, WidthCeiling + 1}

Corruptions == {"none", "info", "rows", "end"}

\* bytes of a complete stream after the signature
FullLen(h) == InfoReq + h * RowReq + EndReq

PngImage(head, w, h, n, c) ==
    [head |-> head, width |-> w, height |-> h, bodyLen |-> n, corrupt |-> c, passes |-> 1]

\* the same image stored interlaced
Interlaced(b) == [b EXCEPT !.passes = Adam7Passes]

\* rows the decoder has to hand out before the whole image is decoded
RowsRequired(b) == b.passes * b.height

\* interlaced images: complete, one byte short, corrupt in a later pass
InterlacedInputs ==
    {Interlaced(PngImage(PNG_SIG, 1, h, FullLen(Adam7Passes * h) - short, c)) :
        h \in 1..MaxHeight, short \in {0, 1}, c \in {"none", "later_pass"}}

\* buffers that are shorter than the signature, or differ from it
PngBadHeads == {<<>>, SubSeq(PNG_SIG, 1, 4), SubSeq(PNG_SIG, 1, 7), <<0, 0, 0>>, Zeros8, [PNG_SIG EXCEPT ![8] = 0]}

PngInputs ==
    {PngImage(hd, 1, 1, IF Len(hd) = SigSize THEN FullLen(1) ELSE 0, "none") : hd \in PngBadHeads}
    \cup {PngImage(PNG_SIG, w, h, n, c) : w \in Widths, h \in 1..MaxHeight,
                                          n \in 0..FullLen(MaxHeight), c \in Corruptions}
    \cup InterlacedInputs

\* contents an uninitialized sigbuf can hold: what an earlier call left in
\* the stack slot, or other bytes
StaleSigbufs == {PNG_SIG, Zeros8}

(***************************************************************************)
(* State of one check_png_valid call.                                      *)
(***************************************************************************)
NoOutcome == [kind |-> "none", body |-> <<>>]

PngIdle ==
    [pc |-> "idle", buf |-> PngImage(<<>>, 1, 1, 0, "none"), caller |-> "none",
     pos |-> 0, sigbuf |-> Zeros8,
     read_ctx |-> <<>>, err_ctx |-> <<>>, error_ptr |-> FALSE, io_ptr |-> FALSE,
     jmpbuf |-> "unset",
     png_ptr |-> "null", info_ptr |-> "null", end_info_ptr |-> "null", deferred |-> FALSE,
     row |-> 0, width |-> 0, height |-> 0, i |-> 0,
     hook_msg |-> <<>>, env |-> FALSE, trace |-> <<>>, outcome |-> NoOutcome]

\* size of the buffer
BufLen(b) == Len(b.head) + b.bodyLen

Log(p, ev) == [p EXCEPT !.trace = Append(@, ev)]

Count(s, ev) == Cardinality({k \in 1..Len(s) : s[k] = ev})

(***************************************************************************)
(* sl::io::read_all on the array_source: the number of bytes delivered.    *)
(***************************************************************************)
read_all(avail, n) == Min(avail, n)

(***************************************************************************)
(* The deferred cleanup of check_png_valid: png_destroy_read_struct on the *)
(* read struct and on the info structs that are not null.                  *)
(***************************************************************************)
png_deferred_off(p) ==
    IF p.deferred /\ p.info_ptr = "live" /\ p.end_info_ptr = "live"
    THEN [Log(p, "png_destroy_read_struct") EXCEPT
            !.png_ptr = "freed", !.info_ptr = "freed", !.end_info_ptr = "freed", !.deferred = FALSE]
    ELSE p

png_deferred(p) ==
    IF p.deferred
    THEN [Log(p, "png_destroy_read_struct") EXCEPT
            !.png_ptr = "freed",
            !.info_ptr = IF p.info_ptr = "live" THEN "freed" ELSE p.info_ptr,
            !.end_info_ptr = IF p.end_info_ptr = "live" THEN "freed" ELSE p.end_info_ptr,
            !.deferred = FALSE]
    ELSE p

\* leaving check_png_valid, by return or by exception: the scope is unwound
png_exit(p, kind, body) ==
    png_deferred([p EXCEPT !.pc = "returned", !.outcome = [kind |-> kind, body |-> body]])

(***************************************************************************)
(* png_error_cb: append the traced message to the error context and        *)
(* longjmp to the checkpoint.  Without an error context it gives up and    *)
(* returns.                                                                *)
(***************************************************************************)
png_error_cb_off(p, msg) == Log(p, "png_error_cb")

png_error_cb(p, msg) ==
    IF ~p.error_ptr
    THEN Log(p, "png_error_cb")
    ELSE [Log(p, "png_error_cb") EXCEPT
            !.err_ctx = @ \o TRACEMSG(msg),
            !.hook_msg = msg,
            !.pc = IF p.jmpbuf = "set" THEN "catch" ELSE "undefined"]

(***************************************************************************)
(* png_src_read_cb: the chunk loop.  count bytes are already delivered,    *)
(* avail bytes remain in the source.                                       *)
(***************************************************************************)
\* to_read_now: what one step asks of the source, the size of buf at most
chunk_size_off(to_read_max) == to_read_max

chunk_size(to_read_max) == IF to_read_max <= BufSize THEN to_read_max ELSE BufSize

RECURSIVE read_loop(_, _, _)
read_loop(to_read, count, avail) ==
    IF to_read - count > 0
    THEN LET to_read_max == to_read - count
             to_read_now == chunk_size(to_read_max)
             read == read_all(avail, to_read_now)
         IN IF read = to_read_now
            THEN read_loop(to_read, count + read, avail - read)
            ELSE [count |-> count, avail |-> avail - read,
                  errmsg |-> TRACEMSG(<<Msg("Not enough data in input PNG buffer", to_read, read, count)>>)]
    ELSE [count |-> count, avail |-> avail, errmsg |-> <<>>]

\* thrown tells whether an exception is raised while copying
png_src_read_cb(p, to_read, thrown) ==
    LET q == Log(p, "png_src_read_cb")
        r == read_loop(to_read, 0, BufLen(p.buf) - p.pos)
    IN IF ~p.io_ptr
       THEN png_error_cb(q, <<Msg("Error obtaining IO data source", 0, 0, 0)>>)
       ELSE IF thrown
       THEN png_error_cb([q EXCEPT !.env = TRUE], TRACEMSG(<<Msg("exception", 0, 0, 0)>>))
       ELSE LET q2 == [q EXCEPT !.pos = BufLen(p.buf) - r.avail, !.read_ctx = @ \o r.errmsg]
            IN IF q2.read_ctx # <<>> THEN png_error_cb(q2, q2.read_ctx) ELSE q2

(***************************************************************************)
(* One decoder step of libpng: it pulls its input through the read hook    *)
(* and raises png_error when the stream is malformed at this step.         *)
(***************************************************************************)
png_decoder_step(p, name, to_read, thrown) ==
    LET q == png_src_read_cb(Log(p, name), to_read, thrown)
    IN IF q.pc # p.pc THEN q
       ELSE IF p.buf.corrupt = name THEN png_error_cb(q, <<Msg("libpng error", 0, 0, 0)>>)
       ELSE q

(***************************************************************************)
(* check_png_valid                                                         *)
(***************************************************************************)
\* png_sig_cmp(sig, 0, 8): non-zero when the 8 bytes differ from the signature
png_sig_cmp(sig) == IF sig = PNG_SIG THEN 0 ELSE 1

\* entry: the source, the read and error contexts; sigbuf is not initialized
png_enter(b, caller, stale) ==
    [PngIdle EXCEPT !.pc = "signature", !.buf = b, !.caller = caller, !.sigbuf = stale]

\* the 8 bytes of sigbuf after read_all: the bytes read, then what was there
sigbuf_after_read(p) ==
    LET read == read_all(BufLen(p.buf) - p.pos, SigSize)
    IN [k \in 1..SigSize |-> IF k <= read THEN p.buf.head[k] ELSE p.sigbuf[k]]

check_png_valid_signature ==
    /\ png.pc = "signature"
    /\ LET read == read_all(BufLen(png.buf) - png.pos, SigSize)
           p == Log([png EXCEPT !.sigbuf = sigbuf_after_read(png), !.pos = @ + read], "png_sig_cmp")
       IN png' = IF png_sig_cmp(p.sigbuf) # 0
                 THEN png_exit(p, "InvalidSignature", <<>>)
                 ELSE [p EXCEPT !.pc = "create_read_struct"]
    /\ UNCHANGED png_frame

check_png_valid_create_read_struct ==
    /\ png.pc = "create_read_struct"
    /\ \E ok \in BOOLEAN :
         LET p == Log(png, "png_create_read_struct")
         IN png' = IF ok
                   THEN [p EXCEPT !.png_ptr = "live", !.error_ptr = TRUE, !.pc = "create_info_struct"]
                   ELSE png_exit([p EXCEPT !.env = TRUE], "ReadStructError", <<>>)
    /\ UNCHANGED png_frame

check_png_valid_create_info_struct ==
    /\ png.pc = "create_info_struct"
    /\ \E info \in {"live", "null"}, end_info \in {"live", "null"} :
         LET p == [Log(Log(png, "png_create_info_struct"), "png_create_info_struct") EXCEPT
                     !.info_ptr = info, !.end_info_ptr = end_info, !.deferred = TRUE]
         IN png' = IF info = "null" \/ end_info = "null"
                   THEN png_exit([p EXCEPT !.env = TRUE], "StructsError", <<>>)
                   ELSE [p EXCEPT !.pc = "setjmp"]
    /\ UNCHANGED png_frame

\* setjmp returning 0, then png_set_read_fn and png_set_sig_bytes
check_png_valid_setjmp ==
    /\ png.pc = "setjmp"
    /\ png' = [Log(png, "png_set_read_fn") EXCEPT
                 !.jmpbuf = "set", !.io_ptr = TRUE, !.row = 0, !.pc = "read_info"]
    /\ UNCHANGED png_frame

check_png_valid_read_info ==
    /\ png.pc = "read_info"
    /\ \E thrown \in BOOLEAN :
         LET p == png_decoder_step(png, "info", InfoReq, thrown)
         IN png' = IF p.pc # png.pc THEN p ELSE [p EXCEPT !.pc = "update_info"]
    /\ UNCHANGED png_frame

\* the width ceiling check
WidthRejectedOff(width) == width >= WidthCeiling

WidthRejected(width) == width > WidthCeiling

\* png_set_interlace_handling(png_ptr): the number of passes; the caller
\* does not keep it
png_set_interlace_handling(p) == Log(p, "png_set_interlace_handling")

\* png_set_interlace_handling, png_read_update_info, the dimensions, the
\* ceiling check and row.resize
check_png_valid_dimensions ==
    /\ png.pc = "update_info"
    /\ LET p == [Log(Log(png_set_interlace_handling(png), "png_read_update_info"),
                     "png_get_image_width") EXCEPT
                   !.height = png.buf.height, !.width = png.buf.width]
       IN png' = IF WidthRejected(p.width)
                 THEN png_exit(p, "InvalidWidth", <<Msg("PNG error, invalid image width", p.width, 0, 0)>>)
                 ELSE [p EXCEPT !.row = p.width, !.i = 0, !.pc = "read_rows"]
    /\ UNCHANGED png_frame

check_png_valid_read_rows ==
    /\ png.pc = "read_rows"
    /\ png.i < png.height
    /\ \E thrown \in BOOLEAN :
         LET p == png_decoder_step(png, "rows", RowReq, thrown)
         IN png' = IF p.pc # png.pc THEN p ELSE [p EXCEPT !.i = @ + 1]
    /\ UNCHANGED png_frame

\* bytes png_read_end pulls: the image data of the rows not read so far,
\* which it skips, and the end-of-image metadata
png_read_end_request(p) == (RowsRequired(p.buf) - Count(p.trace, "rows")) * RowReq + EndReq

check_png_valid_read_end ==
    /\ png.pc = "read_rows"
    /\ ~(png.i < png.height)
    /\ \E thrown \in BOOLEAN :
         LET p == png_decoder_step(png, "end", png_read_end_request(png), thrown)
         IN png' = IF p.pc # png.pc THEN p ELSE png_exit(p, "ok", <<>>)
    /\ UNCHANGED png_frame

\* the body of the 'PNG read error' exception
PngReadErrorBodyOff(p) == p.read_ctx

PngReadErrorBody(p) == p.err_ctx

\* setjmp returning non-zero: the else branch
check_png_valid_catch ==
    /\ png.pc = "catch"
    /\ png' = png_exit(png, "PngReadError", PngReadErrorBody(png))
    /\ UNCHANGED png_frame

check_png_valid ==
    \/ check_png_valid_signature
    \/ check_png_valid_create_read_struct
    \/ check_png_valid_create_info_struct
    \/ check_png_valid_setjmp
    \/ check_png_valid_read_info
    \/ check_png_valid_dimensions
    \/ check_png_valid_read_rows
    \/ check_png_valid_read_end
    \/ check_png_valid_catch

(***************************************************************************)
(* JPEG images.  size is the length of the buffer (0 or not), fault the    *)
(* decoder step at which libjpeg detects a malformed stream and calls      *)
(* error_exit, height the declared output height, warn the decoder step    *)
(* at which libjpeg meets something it recovers from (a truncated stream,  *)
(* say) and emits a warning.                                               *)
(***************************************************************************)
JpegFaults == {"none", "read_header", "start_decompress", "read_scanlines", "finish_decompress"}

JpegImage(size, fault, h) == [size |-> size, fault |-> fault, height |-> h, warn |-> "none"]

\* the same image with a recoverable defect met at the step
Warned(b, step) == [b EXCEPT !.warn = step]

\* images whose entropy-coded data is damaged or ends early
WarnedInputs ==
    {Warned(JpegImage(1, f, h), "read_scanlines") : f \in {"none", "finish_decompress"},
                                                     h \in 1..MaxHeight}

JpegInputs ==
    {JpegImage(0, "none", 1)} \cup {JpegImage(1, f, h) : f \in JpegFaults, h \in 1..MaxHeight}
    \cup WarnedInputs

\* contents an uninitialized emgr.jmpbuf can hold: the checkpoint an earlier
\* call left in the stack slot, or other bytes
StaleJmpbufs == {"stale", "garbage"}

JpgIdle ==
    [pc |-> "idle", buf |-> JpegImage(0, "none", 1), caller |-> "none",
     jmpbuf |-> "garbage", cinfo |-> "none", deferred |-> FALSE, destroyed |-> 0,
     output_scanline |-> 0, output_height |-> 0, buffer |-> FALSE, num_warnings |-> 0,
     msg_code |-> "none", fired |-> <<>>, env |-> FALSE, trace |-> <<>>, outcome |-> NoOutcome]

\* the deferred cleanup of check_jpeg_valid: jpeg_destroy_decompress
jpeg_deferred(j) ==
    IF j.deferred
    THEN [Log(j, "jpeg_destroy_decompress") EXCEPT
            !.cinfo = "destroyed", !.destroyed = @ + 1, !.buffer = FALSE, !.deferred = FALSE]
    ELSE j

jpeg_exit(j, kind, body) ==
    jpeg_deferred([j EXCEPT !.pc = "returned", !.outcome = [kind |-> kind, body |-> body]])

(***************************************************************************)
(* error_cb: longjmp to emgr.jmpbuf.  With the checkpoint set, control     *)
(* resumes in the else branch.  A jump through a jmp_buf that setjmp has   *)
(* not filled in this call is undefined: where an earlier call left its    *)
(* checkpoint in the slot the jump can land in the else branch of this     *)
(* frame, and in any case control can be lost.  The set holds the states   *)
(* the jump can lead to.                                                   *)
(***************************************************************************)
error_cb(j, step) ==
    LET q == [Log(j, "error_cb") EXCEPT
                !.fired = Append(@, [step |-> step, jmpbuf |-> j.jmpbuf])]
    IN CASE j.jmpbuf = "set" -> {[q EXCEPT !.pc = "catch"]}
         [] j.jmpbuf = "stale" -> {[q EXCEPT !.pc = "catch"], [q EXCEPT !.pc = "undefined"]}
         [] OTHER -> {[q EXCEPT !.pc = "undefined"]}

\* ERREXIT of libjpeg: record the message code, call error_exit
jpeg_errexit(j, step, code) == error_cb([j EXCEPT !.msg_code = code], step)

\* message_cb, the output_message override: nothing is done with the message
message_cb(j) == Log(j, "message_cb")

\* WARNMS of libjpeg: emit_message of jpeg_std_error shows the first warning
\* through output_message and counts every one
jpeg_warning(j) ==
    [(IF j.num_warnings = 0 THEN message_cb(j) ELSE j) EXCEPT !.num_warnings = @ + 1]

\* entry: jpeg_std_error, the overrides; emgr.jmpbuf is not initialized
jpeg_enter(b, caller, stale) ==
    [JpgIdle EXCEPT !.pc = "create_decompress", !.buf = b, !.caller = caller, !.jmpbuf = stale]

\* jpeg_create_decompress, then the deferred cleanup is armed
check_jpeg_valid_create_decompress ==
    /\ jpg.pc = "create_decompress"
    /\ \E ok \in BOOLEAN :
         LET j == Log(jpg, "jpeg_create_decompress")
         IN jpg' \in IF ok
                     THEN {[j EXCEPT !.cinfo = "live", !.deferred = TRUE, !.pc = "mem_src"]}
                     ELSE jpeg_errexit([j EXCEPT !.env = TRUE], "create_decompress", "JERR_OUT_OF_MEMORY")
    /\ UNCHANGED jpeg_frame

\* jpeg_mem_src: an empty buffer is a fatal error of the decoder
check_jpeg_valid_mem_src ==
    /\ jpg.pc = "mem_src"
    /\ \E ok \in BOOLEAN :
         LET j == Log(jpg, "jpeg_mem_src")
         IN jpg' \in IF jpg.buf.size = 0
                     THEN jpeg_errexit(j, "mem_src", "JERR_INPUT_EMPTY")
                     ELSE IF ~ok
                     THEN jpeg_errexit([j EXCEPT !.env = TRUE], "mem_src", "JERR_OUT_OF_MEMORY")
                     ELSE {[j EXCEPT !.pc = "setjmp"]}
    /\ UNCHANGED jpeg_frame

\* setjmp returning 0
check_jpeg_valid_setjmp ==
    /\ jpg.pc = "setjmp"
    /\ jpg' = [jpg EXCEPT !.jmpbuf = "set", !.pc = "read_header"]
    /\ UNCHANGED jpeg_frame

check_jpeg_valid_read_header ==
    /\ jpg.pc = "read_header"
    /\ LET j == Log(jpg, "jpeg_read_header")
       IN jpg' \in IF jpg.buf.fault = "read_header"
                   THEN jpeg_errexit(j, "read_header", "JERR_NO_SOI")
                   ELSE {[j EXCEPT !.pc = "start_decompress"]}
    /\ UNCHANGED jpeg_frame

check_jpeg_valid_start_decompress ==
    /\ jpg.pc = "start_decompress"
    /\ LET j == Log(jpg, "jpeg_start_decompress")
       IN jpg' \in IF jpg.buf.fault = "start_decompress"
                   THEN jpeg_errexit(j, "start_decompress", "JERR_BAD_STATE")
                   ELSE {[j EXCEPT !.output_height = jpg.buf.height, !.output_scanline = 0,
                                   !.pc = "alloc_sarray"]}
    /\ UNCHANGED jpeg_frame

\* the row buffer from the decoder's pool
check_jpeg_valid_alloc_sarray ==
    /\ jpg.pc = "alloc_sarray"
    /\ \E ok \in BOOLEAN :
         LET j == Log(jpg, "alloc_sarray")
         IN jpg' \in IF ok
                     THEN {[j EXCEPT !.buffer = TRUE, !.pc = "read_scanlines"]}
                     ELSE jpeg_errexit([j EXCEPT !.env = TRUE], "alloc_sarray", "JERR_OUT_OF_MEMORY")
    /\ UNCHANGED jpeg_frame

\* the condition of the scanline loop
scanlines_left_off(j) == j.output_scanline + 1 < j.output_height

scanlines_left(j) == j.output_scanline < j.output_height

\* one pull of one scanline
check_jpeg_valid_read_scanlines ==
    /\ jpg.pc = "read_scanlines"
    /\ scanlines_left(jpg)
    /\ LET j0 == Log(jpg, "jpeg_read_scanlines")
           j == IF jpg.buf.warn = "read_scanlines" THEN jpeg_warning(j0) ELSE j0
       IN jpg' \in IF jpg.buf.fault = "read_scanlines"
                   THEN jpeg_errexit(j, "read_scanlines", "JERR_BAD_DATA")
                   ELSE {[j EXCEPT !.output_scanline = @ + 1]}
    /\ UNCHANGED jpeg_frame

\* jpeg_finish_decompress refuses to finish before the last scanline
check_jpeg_valid_finish_decompress ==
    /\ jpg.pc = "read_scanlines"
    /\ ~scanlines_left(jpg)
    /\ LET j == Log(jpg, "jpeg_finish_decompress")
       IN jpg' \in IF jpg.output_scanline < jpg.output_height
                   THEN jpeg_errexit(j, "finish_decompress", "JERR_TOO_LITTLE_DATA")
                   ELSE IF jpg.buf.fault = "finish_decompress"
                   THEN jpeg_errexit(j, "finish_decompress", "JERR_BAD_STATE")
                   ELSE {jpeg_exit(j, "ok", <<>>)}
    /\ UNCHANGED jpeg_frame

\* format_message: the decoder's message for the recorded code
format_message(j) == <<Msg(j.msg_code, 0, 0, 0)>>

\* setjmp returning non-zero: the else branch
check_jpeg_valid_catch ==
    /\ jpg.pc = "catch"
    /\ jpg' = jpeg_exit(Log(jpg, "format_message"), "JpegReadError", format_message(jpg))
    /\ UNCHANGED jpeg_frame

check_jpeg_valid ==
    \/ check_jpeg_valid_create_decompress
    \/ check_jpeg_valid_mem_src
    \/ check_jpeg_valid_setjmp
    \/ check_jpeg_valid_read_header
    \/ check_jpeg_valid_start_decompress
    \/ check_jpeg_valid_alloc_sarray
    \/ check_jpeg_valid_read_scanlines
    \/ check_jpeg_valid_finish_decompress
    \/ check_jpeg_valid_catch

(***************************************************************************)
(* Callers of the validators on a buffer of their own: a call, and a       *)
(* second call on the same buffer once the first has returned.             *)
(***************************************************************************)
NoFirst == [fmt |-> "none", kind |-> "none", env |-> FALSE]

call_check_png_valid ==
    /\ png.pc \in {"idle", "returned"}
    /\ \E b \in PngInputs, stale \in StaleSigbufs : png' = png_enter(b, "direct", stale)
    /\ first' = NoFirst
    /\ UNCHANGED <<jpg, registry, docs, di, rq, parked, hook>>

call_check_png_valid_again ==
    /\ png.pc = "returned"
    /\ first = NoFirst
    /\ \E stale \in StaleSigbufs : png' = png_enter(png.buf, "direct", stale)
    /\ first' = [fmt |-> "PNG", kind |-> png.outcome.kind, env |-> png.env]
    /\ UNCHANGED <<jpg, registry, docs, di, rq, parked, hook>>

call_check_jpeg_valid ==
    /\ jpg.pc \in {"idle", "returned"}
    /\ \E b \in JpegInputs, stale \in StaleJmpbufs : jpg' = jpeg_enter(b, "direct", stale)
    /\ first' = NoFirst
    /\ UNCHANGED <<png, registry, docs, di, rq, parked, hook>>

call_check_jpeg_valid_again ==
    /\ jpg.pc = "returned"
    /\ first = NoFirst
    /\ \E stale \in StaleJmpbufs : jpg' = jpeg_enter(jpg.buf, "direct", stale)
    /\ first' = [fmt |-> "JPEG", kind |-> jpg.outcome.kind, env |-> jpg.env]
    /\ UNCHANGED <<png, registry, docs, di, rq, parked, hook>>

(***************************************************************************)
(* The document registry and the documents.  unique_handle_registry hands  *)
(* out the address of the resource as its handle, so a document put back   *)
(* is found under the handle it had: a handle is the document itself.      *)
(***************************************************************************)
\* documents that can exist at a time
MaxDocs == 2
\* pages added to one document
MaxPages == 1
\* images loaded into one document
MaxImages == 1
\* text, line and rectangle drawings on one document
MaxDrawn == 1

Docs == 1..MaxDocs

\* paged: an add_page request on the document has succeeded
\* reissued: a document that had this address was destroyed before
NoDocument ==
    [state |-> "none", pages |-> 0, images |-> 0, drawn |-> 0, paged |-> FALSE,
     reissued |-> FALSE]

\* reg->put(doc)
put(reg, doc) == reg \cup {doc}

\* reg->remove(handle): the document, or 0 for nullptr
remove_off(reg, handle) == handle

remove(reg, handle) == IF handle \in reg THEN handle ELSE 0

(***************************************************************************)
(* Requests.  A request object is the set of the names of its fields and   *)
(* the values of the fields the code branches on.  The operations other    *)
(* than draw_image keep their state in rq.                                 *)
(***************************************************************************)
Operations ==
    {"load_font", "add_page", "write_text", "write_text_inside_rectangle", "draw_line",
     "draw_rectangle", "save_to_file", "destroy_document"}

\* the field names the parse loop of the operation accepts
KnownFields(op) ==
    CASE op = "load_font" -> {"pdfDocumentHandle", "ttfPath"}
      [] op = "add_page" -> {"pdfDocumentHandle", "format", "orientation", "width", "height"}
      [] op = "write_text" ->
            {"pdfDocumentHandle", "fontName", "fontSize", "text", "x", "y", "color"}
      [] op = "write_text_inside_rectangle" ->
            {"pdfDocumentHandle", "fontName", "fontSize", "text", "left", "top", "right",
             "bottom", "align", "color"}
      [] op = "draw_line" ->
            {"pdfDocumentHandle", "beginX", "beginY", "endX", "endY", "color", "lineWidth"}
      [] op = "draw_rectangle" ->
            {"pdfDocumentHandle", "x", "y", "width", "height", "color", "lineWidth"}
      [] op = "draw_image" ->
            {"pdfDocumentHandle", "x", "y", "width", "height", "imageHex", "imageFormat"}
      [] op = "save_to_file" -> {"pdfDocumentHandle", "path"}
      [] op = "destroy_document" -> {"pdfDocumentHandle"}

\* the fields the operation has a default for, or checks in combination
OptionalFields(op) ==
    CASE op \in {"write_text", "write_text_inside_rectangle"} -> {"color"}
      [] op \in {"draw_line", "draw_rectangle"} -> {"color", "lineWidth"}
      [] op = "add_page" -> {"format", "orientation", "width", "height"}
      [] OTHER -> {}

\* the fields of the 'Required parameter ... not specified' checks
RequiredFields(op) == KnownFields(op) \ OptionalFields(op)

\* the parse loop, which throws on a name it does not know, then the
\* required-parameter checks
parse_request_off(op, fields) ==
    IF fields \ KnownFields(op) # {} THEN "UnknownField" ELSE "ok"

parse_request(op, fields) ==
    IF fields \ KnownFields(op) # {} THEN "UnknownField"
    ELSE IF RequiredFields(op) \ fields # {} THEN "MissingField"
    ELSE "ok"

\* request objects: complete, without the optional fields, with a field
\* the operation does not know, with one required field left out
FieldSets(op) ==
    {KnownFields(op), RequiredFields(op), KnownFields(op) \cup {"extra"}}
    \cup {KnownFields(op) \ {f} : f \in RequiredFields(op)}
    \cup {(RequiredFields(op) \ {f}) \cup {"extra"} : f \in RequiredFields(op)}

PageFormats == {"A3", "A4", "A5", "B4", "B5"}

PageOrientations == {"PORTRAIT", "LANDSCAPE"}

TextAlignments == {"LEFT", "RIGHT", "CENTER", "JUSTIFY"}

RqIdle ==
    [pc |-> "idle", op |-> "none", fields |-> {}, handle |-> 0,
     format |-> "", orient |-> "", width |-> -1, height |-> -1, align |-> "",
     doc |-> 0, deferred |-> FALSE, trace |-> <<>>, before |-> NoDocument, result |-> "none"]

\* the names of the fields an add_page request with these values has
AddPageFields(format, orient, width, height) ==
    {"pdfDocumentHandle"}
    \cup (IF format # "" THEN {"format"} ELSE {})
    \cup (IF orient # "" THEN {"orientation"} ELSE {})
    \cup (IF width # -1 THEN {"width"} ELSE {})
    \cup (IF height # -1 THEN {"height"} ELSE {})

AddPageRequests ==
    {[RqIdle EXCEPT !.op = "add_page", !.fields = AddPageFields(f, o, w, h),
                    !.handle = handle, !.format = f, !.orient = o, !.width = w, !.height = h] :
        handle \in Docs, f \in {"", "A4", "XX"}, o \in {"", "PORTRAIT", "XX"},
        w \in {-1, 100}, h \in {-1, 100}}
    \cup {[RqIdle EXCEPT !.op = "add_page", !.fields = {"format", "orientation"}, !.handle = -1,
                         !.format = "A4", !.orient = "PORTRAIT"]}
    \cup {[RqIdle EXCEPT !.op = "add_page",
                         !.fields = {"pdfDocumentHandle", "format", "orientation", "extra"},
                         !.handle = handle, !.format = "A4", !.orient = "PORTRAIT"] :
            handle \in Docs}

\* the requests of an operation; a field that is not given has its default
Requests(op) ==
    IF op = "add_page"
    THEN AddPageRequests
    ELSE {[RqIdle EXCEPT !.op = op, !.fields = fs,
                         !.handle = IF "pdfDocumentHandle" \in fs THEN handle ELSE -1,
                         !.align = IF "align" \in fs THEN align ELSE ""] :
             fs \in FieldSets(op), handle \in Docs,
             align \in IF op = "write_text_inside_rectangle" THEN {"LEFT", "XX"} ELSE {""}}

\* the parameter checks of add_page; "" and -1 stand for a field not given
add_page_params_ok_off(format, orient, width, height) ==
    /\ ~(format = "" /\ ~(height # -1 /\ width # -1))
    /\ ~(orient = "" /\ ~(height # -1 /\ width # -1))
    /\ ~(width = -1 /\ ~(format # "" /\ orient # ""))
    /\ ~(height = -1 /\ ~(format # "" /\ orient # ""))

add_page_params_ok(format, orient, width, height) ==
    /\ ~(format = "" /\ ~(height # -1 /\ width # -1))
    /\ ~(orient = "" /\ ~(height # -1 /\ width # -1))
    /\ ~(width = -1 /\ ~(format # "" /\ orient # ""))
    /\ ~(height = -1 /\ ~(format # "" /\ orient # ""))
    /\ ~((format # "" \/ orient # "") /\ (height # -1 \/ width # -1))

\* everything an operation checks before it goes to the registry
validate_request(r) ==
    LET parsed == parse_request(r.op, r.fields)
    IN IF parsed # "ok" THEN parsed
       ELSE IF r.op = "add_page" /\ ~add_page_params_ok(r.format, r.orient, r.width, r.height)
       THEN "RejectedParameters"
       ELSE "ok"

\* one request at a time in this specification
NoRequest == di.pc = "idle" /\ rq.pc = "idle"

\* HPDF_New: an address no document has now, one never used or the address
\* of a document that was freed
HPDF_New(doc) ==
    \/ docs[doc].state = "freed"
    \/ /\ docs[doc].state = "none"
       /\ \A other \in Docs : docs[other].state = "none" => doc <= other

create_document ==
    /\ NoRequest
    /\ \E doc \in Docs :
         /\ HPDF_New(doc)
         /\ \E ok \in BOOLEAN :
              IF ok
              THEN /\ docs' = [docs EXCEPT ![doc] =
                                 [NoDocument EXCEPT !.state = "alive",
                                                    !.reissued = (docs[doc].state = "freed")]]
                   /\ registry' = put(registry, doc)
              ELSE UNCHANGED <<docs, registry>>
    /\ UNCHANGED <<png, jpg, first, rq, parked, hook, di>>

\* json parse and the parameter checks of the operation
request_parse_of(op, requests) ==
    /\ NoRequest
    /\ \E r \in requests :
         /\ (op = "add_page" /\ r.handle \in Docs) => docs[r.handle].pages < MaxPages
         /\ (op \notin {"add_page", "load_font", "save_to_file", "destroy_document"}
               /\ r.handle \in Docs) => docs[r.handle].drawn < MaxDrawn
         /\ LET checked == validate_request(r)
            IN rq' = [r EXCEPT !.pc = IF checked = "ok" THEN "remove" ELSE "returned",
                               !.result = IF checked = "ok" THEN "none" ELSE checked,
                               !.before = IF r.handle \in Docs THEN docs[r.handle] ELSE NoDocument]
    /\ UNCHANGED <<png, jpg, first, registry, docs, di, parked, hook>>

request_parse(op) == request_parse_of(op, Requests(op))

\* the deferred cleanup of a request: reg->put(doc)
request_deferred_off(reg) == reg

request_deferred(reg) == IF rq.deferred THEN put(reg, rq.doc) ELSE reg

\* leaving the operation, by return or by exception
request_exit(r, result) ==
    /\ rq' = [r EXCEPT !.pc = "returned", !.result = result, !.deferred = FALSE,
                       !.trace = IF rq.deferred THEN Append(r.trace, "put") ELSE r.trace]
    /\ registry' = request_deferred(registry)

\* the operations that set up the deferred put after reg->remove
defers_put_off(op) == TRUE

defers_put(op) == op # "destroy_document"

\* reg->remove(handle); every operation but destroy_document defers the put
request_remove(op) ==
    /\ rq.pc = "remove"
    /\ rq.op = op
    /\ LET doc == remove(registry, rq.handle)
       IN IF doc = 0
          THEN request_exit(rq, "InvalidHandle")
          ELSE /\ rq' = [Log(rq, "remove") EXCEPT !.doc = doc, !.pc = "call",
                                                  !.deferred = defers_put(op)]
               /\ registry' = registry \ {doc}
    /\ UNCHANGED <<png, jpg, first, docs, di, parked, hook>>

request_return(op) ==
    /\ rq.pc = "return"
    /\ rq.op = op
    /\ request_exit(rq, "ok")
    /\ docs' = IF op = "add_page" THEN [docs EXCEPT ![rq.doc].paged = TRUE] ELSE docs
    /\ UNCHANGED <<png, jpg, first, di, parked, hook>>

\* a call of the PDF library that changes nothing the model keeps; an error
\* of the library is thrown by the document's error handler
library_call(op, event) ==
    /\ rq.pc = "call"
    /\ rq.op = op
    /\ \E ok \in BOOLEAN :
         IF ok
         THEN rq' = [Log(rq, event) EXCEPT !.pc = "return"] /\ UNCHANGED registry
         ELSE request_exit(Log(rq, event), "PdfError")
    /\ UNCHANGED <<png, jpg, first, docs, di, parked, hook>>

load_font ==
    \/ request_parse("load_font")
    \/ request_remove("load_font")
    \/ library_call("load_font", "HPDF_LoadTTFontFromFile")
    \/ request_return("load_font")

save_to_file ==
    \/ request_parse("save_to_file")
    \/ request_remove("save_to_file")
    \/ library_call("save_to_file", "HPDF_SaveToFile")
    \/ request_return("save_to_file")

\* HPDF_Free; the document is not put back
destroy_document_call ==
    /\ rq.pc = "call"
    /\ rq.op = "destroy_document"
    /\ rq' = [Log(rq, "HPDF_Free") EXCEPT !.pc = "return"]
    /\ docs' = [docs EXCEPT ![rq.doc] = [NoDocument EXCEPT !.state = "freed"]]
    /\ UNCHANGED <<png, jpg, first, registry, di, parked, hook>>

destroy_document ==
    \/ request_parse("destroy_document")
    \/ request_remove("destroy_document")
    \/ destroy_document_call
    \/ request_return("destroy_document")

(***************************************************************************)
(* add_page: the format and the orientation are looked up, then the page   *)
(* is added, then it is sized.                                             *)
(***************************************************************************)
add_page_call ==
    /\ rq.pc = "call"
    /\ rq.op = "add_page"
    /\ IF rq.format # "" /\ rq.format \notin PageFormats
       THEN request_exit(rq, "UnsupportedFormat") /\ UNCHANGED docs
       ELSE IF rq.format # "" /\ rq.orient \notin PageOrientations
       THEN request_exit(rq, "UnsupportedOrientation") /\ UNCHANGED docs
       ELSE \E added \in BOOLEAN, sized \in BOOLEAN :
              LET r == Log(rq, "HPDF_AddPage")
                  size == IF rq.format # "" THEN "HPDF_Page_SetSize" ELSE "HPDF_Page_SetWidth"
              IN IF ~added
                 THEN request_exit(r, "AddPageError") /\ UNCHANGED docs
                 ELSE /\ docs' = [docs EXCEPT ![rq.doc].pages = @ + 1]
                      /\ IF sized
                         THEN rq' = [Log(r, size) EXCEPT !.pc = "return"] /\ UNCHANGED registry
                         ELSE request_exit(Log(r, size), "PdfError")
    /\ UNCHANGED <<png, jpg, first, di, parked, hook>>

add_page ==
    \/ request_parse("add_page")
    \/ request_remove("add_page")
    \/ add_page_call
    \/ request_return("add_page")

(***************************************************************************)
(* write_text, write_text_inside_rectangle, draw_line, draw_rectangle      *)
(***************************************************************************)
\* HPDF_GetCurrentPage(doc): the current page, 0 for nullptr
HPDF_GetCurrentPage(doc) == docs[doc].pages

\* nullptr == page
NoCurrentPageOff(page) == FALSE

NoCurrentPage(page) == page = 0

\* the current page check, then the drawing calls on the page
drawing_call(r, event) ==
    IF NoCurrentPage(HPDF_GetCurrentPage(rq.doc))
    THEN request_exit(Log(r, "HPDF_GetCurrentPage"), "NoCurrentPage") /\ UNCHANGED docs
    ELSE \E ok \in BOOLEAN :
           LET q == Log(Log(r, "HPDF_GetCurrentPage"), event)
           IN IF ok
              THEN /\ rq' = [q EXCEPT !.pc = "return"]
                   /\ docs' = [docs EXCEPT ![rq.doc].drawn = @ + 1]
                   /\ UNCHANGED registry
              ELSE request_exit(q, "PdfError") /\ UNCHANGED docs

write_text_call ==
    /\ rq.pc = "call"
    /\ rq.op = "write_text"
    /\ drawing_call(rq, "HPDF_Page_TextOut")
    /\ UNCHANGED <<png, jpg, first, di, parked, hook>>

write_text ==
    \/ request_parse("write_text")
    \/ request_remove("write_text")
    \/ write_text_call
    \/ request_return("write_text")

\* the alignment is looked up before the current page is asked for
write_text_inside_rectangle_call ==
    /\ rq.pc = "call"
    /\ rq.op = "write_text_inside_rectangle"
    /\ IF rq.align \notin TextAlignments
       THEN request_exit(rq, "InvalidAlign") /\ UNCHANGED docs
       ELSE drawing_call(rq, "HPDF_Page_TextRect")
    /\ UNCHANGED <<png, jpg, first, di, parked, hook>>

write_text_inside_rectangle ==
    \/ request_parse("write_text_inside_rectangle")
    \/ request_remove("write_text_inside_rectangle")
    \/ write_text_inside_rectangle_call
    \/ request_return("write_text_inside_rectangle")

draw_line_call ==
    /\ rq.pc = "call"
    /\ rq.op = "draw_line"
    /\ drawing_call(rq, "HPDF_Page_LineTo")
    /\ UNCHANGED <<png, jpg, first, di, parked, hook>>

draw_line ==
    \/ request_parse("draw_line")
    \/ request_remove("draw_line")
    \/ draw_line_call
    \/ request_return("draw_line")

draw_rectangle_call ==
    /\ rq.pc = "call"
    /\ rq.op = "draw_rectangle"
    /\ drawing_call(rq, "HPDF_Page_Rectangle")
    /\ UNCHANGED <<png, jpg, first, di, parked, hook>>

draw_rectangle ==
    \/ request_parse("draw_rectangle")
    \/ request_remove("draw_rectangle")
    \/ draw_rectangle_call
    \/ request_return("draw_rectangle")

(***************************************************************************)
(* draw_image and load_image_from_hex.  The request carries the handle,    *)
(* the format tag, whether its hex text converts, and the bytes the hex    *)
(* text stands for.                                                        *)
(***************************************************************************)
ImageFormats == {"PNG", "JPEG", "GIF"}

\* images sent with draw_image requests; the bytes matter where they are
\* decoded, that is in requests with the "PNG" tag whose hex text converts
DrawImages ==
    {PngImage(hd, 1, 1, 0, "none") : hd \in {<<>>, SubSeq(PNG_SIG, 1, 4), Zeros8}}
    \cup {PngImage(PNG_SIG, w, 1, n, c) : w \in {1, WidthCeiling + 1}, n \in {0, FullLen(1)},
                                          c \in {"none", "rows"}}

\* images of requests where the image is not what is looked at
PlainImages == {PngImage(PNG_SIG, 1, 1, n, "none") : n \in {0, FullLen(1)}}

DiIdle ==
    [pc |-> "idle", fields |-> {}, handle |-> 0, format |-> "", hex_ok |-> TRUE,
     image |-> PngImage(<<>>, 1, 1, 0, "none"),
     doc |-> 0, deferred |-> FALSE, checked |-> FALSE, trace |-> <<>>,
     before |-> NoDocument, result |-> "none"]

\* json parse and the required-parameter checks
draw_image_parse_of(images) ==
    /\ NoRequest
    /\ \E fields \in FieldSets("draw_image"), handle \in Docs :
         LET parsed == parse_request("draw_image", fields)
         IN \E format \in IF parsed = "ok" THEN ImageFormats ELSE {""},
               hex_ok \in IF parsed = "ok" THEN BOOLEAN ELSE {TRUE} :
            \E image \in IF parsed = "ok" /\ hex_ok /\ format = "PNG" THEN images ELSE {DiIdle.image} :
              /\ docs[handle].images < MaxImages
              /\ di' = [DiIdle EXCEPT
                          !.fields = fields,
                          !.handle = IF "pdfDocumentHandle" \in fields THEN handle ELSE -1,
                          !.format = format, !.hex_ok = hex_ok, !.image = image,
                          !.before = docs[handle],
                          !.pc = IF parsed = "ok" THEN "remove" ELSE "returned",
                          !.result = IF parsed = "ok" THEN "none" ELSE parsed]
    /\ UNCHANGED <<png, jpg, first, rq, parked, hook, registry, docs>>

draw_image_parse == draw_image_parse_of(DrawImages)

draw_image_parse_plain == draw_image_parse_of(PlainImages)

\* the deferred cleanup of draw_image: reg->put(doc)
draw_image_deferred_off(reg) == reg

draw_image_deferred(reg) == IF di.deferred THEN put(reg, di.doc) ELSE reg

\* leaving draw_image, by return or by exception
draw_image_exit(d, result) ==
    /\ di' = [d EXCEPT !.pc = "returned", !.result = result, !.deferred = FALSE,
                       !.trace = IF di.deferred THEN Append(d.trace, "put") ELSE d.trace]
    /\ registry' = draw_image_deferred(registry)

draw_image_remove ==
    /\ di.pc = "remove"
    /\ LET doc == remove(registry, di.handle)
       IN IF doc = 0
          THEN draw_image_exit(di, "InvalidHandle")
          ELSE /\ di' = [di EXCEPT !.doc = doc, !.deferred = TRUE, !.pc = "current_page",
                                   !.trace = Append(@, "remove")]
               /\ registry' = registry \ {doc}
    /\ UNCHANGED <<png, jpg, first, rq, parked, hook, docs>>

draw_image_current_page ==
    /\ di.pc = "current_page"
    /\ LET d == [di EXCEPT !.trace = Append(@, "HPDF_GetCurrentPage")]
       IN IF NoCurrentPage(HPDF_GetCurrentPage(di.doc))
          THEN draw_image_exit(d, "NoCurrentPage")
          ELSE /\ di' = [d EXCEPT !.pc = "hex"]
               /\ UNCHANGED registry
    /\ UNCHANGED <<png, jpg, first, rq, parked, hook, docs>>

\* convert hex to binary
load_image_from_hex_convert ==
    /\ di.pc = "hex"
    /\ LET d == [di EXCEPT !.trace = Append(@, "make_hex_source")]
       IN IF ~di.hex_ok
          THEN draw_image_exit(d, "HexError")
          ELSE /\ di' = [d EXCEPT !.pc = "format"]
               /\ UNCHANGED registry
    /\ UNCHANGED <<png, jpg, first, rq, parked, hook, docs>>

\* the format tags load_image_from_hex refuses
InvalidImageFormatOff(format) == format = ""

InvalidImageFormat(format) == "PNG" # format /\ "JPEG" # format

\* the format check, and the call of check_png_valid for "PNG"
load_image_from_hex_format ==
    /\ di.pc = "format"
    /\ IF InvalidImageFormat(di.format)
       THEN /\ draw_image_exit(di, "InvalidImageFormat")
            /\ UNCHANGED png
       ELSE IF "PNG" = di.format
       THEN /\ \E stale \in StaleSigbufs : png' = png_enter(di.image, "load_image_from_hex", stale)
            /\ di' = [di EXCEPT !.pc = "check_png_valid", !.trace = Append(@, "check_png_valid")]
            /\ UNCHANGED registry
       ELSE /\ di' = [di EXCEPT !.pc = "load"]
            /\ UNCHANGED <<png, registry>>
    /\ UNCHANGED <<jpg, first, rq, parked, hook, docs>>

\* check_png_valid has returned, or thrown
load_image_from_hex_checked ==
    /\ di.pc = "check_png_valid"
    /\ png.pc = "returned"
    /\ png' = PngIdle
    /\ IF png.outcome.kind = "ok"
       THEN /\ di' = [di EXCEPT !.pc = "load", !.checked = TRUE,
                                !.trace = Append(@, "check_png_valid:ok")]
            /\ UNCHANGED registry
       ELSE draw_image_exit(di, "Png" \o png.outcome.kind)
    /\ UNCHANGED <<jpg, first, rq, parked, hook, docs>>

\* HPDF_LoadPngImageFromMem or HPDF_LoadJpegImageFromMem; an error of the
\* PDF library is thrown by the document's error handler
load_image_from_hex_load ==
    /\ di.pc = "load"
    /\ \E ok \in BOOLEAN :
         LET d == [di EXCEPT !.trace = Append(@, IF "PNG" = di.format
                                                 THEN "HPDF_LoadPngImageFromMem"
                                                 ELSE "HPDF_LoadJpegImageFromMem")]
         IN IF ok
            THEN /\ di' = [d EXCEPT !.pc = "draw"]
                 /\ docs' = [docs EXCEPT ![di.doc].images = @ + 1]
                 /\ UNCHANGED registry
            ELSE /\ draw_image_exit(d, "LoaderError")
                 /\ UNCHANGED docs
    /\ UNCHANGED <<png, jpg, first, rq, parked, hook>>

draw_image_draw ==
    /\ di.pc = "draw"
    /\ \E ok \in BOOLEAN :
         LET d == [di EXCEPT !.trace = Append(@, "HPDF_Page_DrawImage")]
         IN IF ok
            THEN /\ di' = [d EXCEPT !.pc = "return"]
                 /\ docs' = [docs EXCEPT ![di.doc].drawn = @ + 1]
                 /\ UNCHANGED registry
            ELSE /\ draw_image_exit(d, "DrawError")
                 /\ UNCHANGED docs
    /\ UNCHANGED <<png, jpg, first, rq, parked, hook>>

draw_image_return ==
    /\ di.pc = "return"
    /\ draw_image_exit(di, "ok")
    /\ UNCHANGED <<png, jpg, first, rq, parked, hook, docs>>

\* the steps of a request that has been parsed
draw_image_steps ==
    \/ draw_image_remove
    \/ draw_image_current_page
    \/ load_image_from_hex_convert
    \/ load_image_from_hex_format
    \/ load_image_from_hex_checked
    \/ load_image_from_hex_load
    \/ draw_image_draw
    \/ draw_image_return

draw_image ==
    \/ draw_image_parse
    \/ draw_image_steps

\* the response, or the error, is handed to the caller
wiltoncall_return ==
    /\ di.pc = "returned" \/ rq.pc = "returned"
    /\ di' = DiIdle
    /\ rq' = RqIdle
    /\ UNCHANGED <<png, jpg, first, registry, docs, parked, hook>>

(***************************************************************************)
(* Two threads.  Everything a validator call works on is an automatic     *)
(* variable of the call or an object the call owns (src, read_ctx,         *)
(* err_ctx, sigbuf, the decoder structs; cinfo and emgr), and everything a *)
(* request works on but the registry and the documents is an automatic     *)
(* variable of the operation: png, jpg, rq and di hold the calls and the   *)
(* request of the thread that is running, parked those of the other        *)
(* thread, and a context switch exchanges them.  The hooks reach the       *)
(* contexts through the pointers kept in the decoder struct of the call    *)
(* they are invoked for.  The registry and the documents are shared.       *)
(***************************************************************************)
ThreadPngInputs ==
    {PngImage(Zeros8, 1, 1, FullLen(1), "none")}
    \cup {PngImage(PNG_SIG, 1, 1, n, c) : n \in {0, FullLen(1)}, c \in {"none", "rows"}}

ThreadJpegInputs == {JpegImage(0, "none", 1)} \cup {JpegImage(1, f, 1) : f \in {"none", "read_scanlines"}}

NoCalls == [png |-> PngIdle, jpg |-> JpgIdle, rq |-> RqIdle, di |-> DiIdle]

\* the running thread is not inside a validator call
ThreadFree == png.pc \in {"idle", "returned"} /\ jpg.pc \in {"idle", "returned"}

thread_call_png ==
    /\ ThreadFree
    /\ \E b \in ThreadPngInputs, stale \in StaleSigbufs : png' = png_enter(b, "thread", stale)
    /\ jpg' = JpgIdle
    /\ UNCHANGED <<first, registry, docs, di, rq, parked, hook>>

thread_call_jpeg ==
    /\ ThreadFree
    /\ \E b \in ThreadJpegInputs, stale \in StaleJmpbufs : jpg' = jpeg_enter(b, "thread", stale)
    /\ png' = PngIdle
    /\ UNCHANGED <<first, registry, docs, di, rq, parked, hook>>

\* what a thread finds when it runs again: the calls as it left them; no
\* part of them is shared with the thread that ran meanwhile
thread_resume_off(saved, running) == [saved EXCEPT !.png.err_ctx = running.png.err_ctx]

thread_resume(saved, running) == saved

\* the scheduler takes the running thread off and runs the other
thread_switch ==
    /\ parked' = [png |-> png, jpg |-> jpg, rq |-> rq, di |-> di]
    /\ LET resumed == thread_resume(parked, [png |-> png, jpg |-> jpg, rq |-> rq, di |-> di])
       IN png' = resumed.png /\ jpg' = resumed.jpg /\ rq' = resumed.rq /\ di' = resumed.di
    /\ UNCHANGED <<first, registry, docs, hook>>

\* the operations the two threads request, with requests that pass the
\* parameter checks
ConcurrentRequests(op) ==
    {r \in Requests(op) :
        /\ validate_request(r) = "ok"
        /\ r.fields = IF op = "add_page" THEN {"pdfDocumentHandle", "format", "orientation"}
                      ELSE RequiredFields(op)
        /\ op = "add_page" => r.format = "A4" /\ r.orient = "PORTRAIT"}

thread_add_page ==
    \/ request_parse_of("add_page", ConcurrentRequests("add_page"))
    \/ request_remove("add_page")
    \/ add_page_call
    \/ request_return("add_page")

thread_save_to_file ==
    \/ request_parse_of("save_to_file", ConcurrentRequests("save_to_file"))
    \/ request_remove("save_to_file")
    \/ library_call("save_to_file", "HPDF_SaveToFile")
    \/ request_return("save_to_file")

thread_destroy_document ==
    \/ request_parse_of("destroy_document", ConcurrentRequests("destroy_document"))
    \/ request_remove("destroy_document")
    \/ destroy_document_call
    \/ request_return("destroy_document")

(***************************************************************************)
(* png_src_read_cb with the bytes it moves: one call of the hook on a      *)
(* source with some bytes left and a destination of to_read bytes, one     *)
(* iteration of the chunk loop per step.                                   *)
(***************************************************************************)
\* chunks of the largest request
MaxChunks == 2

\* requested byte counts: none, few, around one chunk, more than one chunk
HookRequests ==
    {0, 1, BufSize - 1, BufSize, BufSize + 1}
    \cup {c * BufSize : c \in 2..MaxChunks} \cup {c * BufSize + 1 : c \in 2..MaxChunks}

\* bytes left in the source
HookRemaining == HookRequests \cup {BufSize + BufSize \div 2, MaxChunks * BufSize + 2}

\* what the destination holds before the hook writes it
Dirty == 255

\* the bytes of a source of the given length, none of them 0 or Dirty
SourceBytes(len) == [k \in 1..len |-> (k % 251) + 1]

HookIdle ==
    [pc |-> "idle", to_read |-> 0, data |-> <<>>, pos0 |-> 0, pos |-> 0, out |-> <<>>,
     count |-> 0, read |-> 0, errmsg |-> <<>>, errors |-> <<>>, thrown |-> FALSE]

\* std::memcpy(out_ptr + offset, bytes, Len(bytes))
memcpy(out, offset, bytes) ==
    [k \in 1..Len(out) |-> IF offset < k /\ k <= offset + Len(bytes) THEN bytes[k - offset] ELSE out[k]]

\* std::memset(out_ptr + offset, 0, len)
memset_off(out, offset, len) == [k \in 1..Len(out) |-> IF k <= len THEN 0 ELSE out[k]]

memset(out, offset, len) ==
    [k \in 1..Len(out) |-> IF offset < k /\ k <= offset + len THEN 0 ELSE out[k]]

\* the decoder calls the hook for to_read bytes
call_png_src_read_cb ==
    /\ hook.pc \in {"idle", "returned", "jumped"}
    /\ \E n \in HookRequests, remaining \in HookRemaining, pos0 \in {0, SigSize} :
         hook' = [HookIdle EXCEPT !.pc = "loop", !.to_read = n,
                                  !.data = SourceBytes(pos0 + remaining),
                                  !.pos0 = pos0, !.pos = pos0,
                                  !.out = [k \in 1..n |-> Dirty]]
    /\ UNCHANGED <<png, jpg, first, registry, docs, di, rq, parked>>

\* one iteration of the chunk loop; thrown: an exception is raised in it
png_src_read_cb_chunk ==
    /\ hook.pc = "loop"
    /\ hook.to_read - hook.count > 0
    /\ \E thrown \in BOOLEAN :
         LET to_read_max == hook.to_read - hook.count
             to_read_now == chunk_size(to_read_max)
             read == read_all(Len(hook.data) - hook.pos, to_read_now)
             buf == SubSeq(hook.data, hook.pos + 1, hook.pos + read)
             h == [hook EXCEPT !.read = read, !.pos = @ + read]
         IN hook' =
              IF thrown
              THEN [h EXCEPT !.out = memset(hook.out, 0, hook.to_read), !.thrown = TRUE,
                             !.errors = Append(@, TRACEMSG(<<Msg("exception", 0, 0, 0)>>)),
                             !.pc = "jumped"]
              ELSE IF read = to_read_now
              THEN [h EXCEPT !.out = memcpy(hook.out, hook.count, buf), !.count = @ + read]
              ELSE [h EXCEPT !.out = memset(hook.out, hook.count, to_read_max),
                             !.errmsg = @ \o TRACEMSG(<<Msg("Not enough data in input PNG buffer",
                                                            hook.to_read, read, hook.count)>>),
                             !.pc = "after"]
    /\ UNCHANGED <<png, jpg, first, registry, docs, di, rq, parked>>

\* the loop condition fails
png_src_read_cb_done ==
    /\ hook.pc = "loop"
    /\ ~(hook.to_read - hook.count > 0)
    /\ hook' = [hook EXCEPT !.pc = "after"]
    /\ UNCHANGED <<png, jpg, first, registry, docs, di, rq, parked>>

\* after the try block: png_error with the recorded message, if there is one
png_src_read_cb_report ==
    /\ hook.pc = "after"
    /\ hook' = IF hook.errmsg # <<>>
               THEN [hook EXCEPT !.errors = Append(@, hook.errmsg), !.pc = "jumped"]
               ELSE [hook EXCEPT !.pc = "returned"]
    /\ UNCHANGED <<png, jpg, first, registry, docs, di, rq, parked>>

png_src_read_cb_steps ==
    \/ png_src_read_cb_chunk
    \/ png_src_read_cb_done
    \/ png_src_read_cb_report

(***************************************************************************)
(* Specifications.                                                         *)
(***************************************************************************)
Init ==
    /\ png = PngIdle
    /\ jpg = JpgIdle
    /\ first = NoFirst
    /\ registry = {}
    /\ docs = [doc \in Docs |-> NoDocument]
    /\ di = DiIdle
    /\ rq = RqIdle
    /\ parked = NoCalls
    /\ hook = HookIdle

\* the requests that put an image on a page
Next ==
    \/ create_document
    \/ add_page
    \/ draw_image
    \/ check_png_valid
    \/ wiltoncall_return

Spec == Init /\ [][Next]_vars

\* the requests of every operation
NextOps ==
    \/ create_document
    \/ load_font
    \/ add_page
    \/ write_text
    \/ write_text_inside_rectangle
    \/ draw_line
    \/ draw_rectangle
    \/ draw_image_parse_plain
    \/ draw_image_steps
    \/ check_png_valid
    \/ save_to_file
    \/ destroy_document
    \/ wiltoncall_return

SpecOps == Init /\ [][NextOps]_vars

\* calls of check_png_valid
NextPng ==
    \/ call_check_png_valid
    \/ call_check_png_valid_again
    \/ check_png_valid

SpecPng == Init /\ [][NextPng]_vars

\* calls of check_jpeg_valid
NextJpeg ==
    \/ call_check_jpeg_valid
    \/ call_check_jpeg_valid_again
    \/ check_jpeg_valid

SpecJpeg == Init /\ [][NextJpeg]_vars

\* a thread that is inside a validator call keeps running: the steps of the
\* call are taken as long as one is possible
SpecPngLive == SpecPng /\ WF_vars(check_png_valid)

SpecJpegLive == SpecJpeg /\ WF_vars(check_jpeg_valid)

\* validator calls of two threads, interleaved
NextThreads ==
    \/ thread_call_png
    \/ thread_call_jpeg
    \/ thread_switch
    \/ check_png_valid
    \/ check_jpeg_valid

SpecThreads == Init /\ [][NextThreads]_vars

\* requests of two threads, interleaved
NextConcurrent ==
    \/ create_document
    \/ thread_add_page
    \/ thread_save_to_file
    \/ thread_destroy_document
    \/ wiltoncall_return
    \/ thread_switch

SpecConcurrent == Init /\ [][NextConcurrent]_vars

\* calls of the read hook
NextHook ==
    \/ call_png_src_read_cb
    \/ png_src_read_cb_steps

SpecHook == Init /\ [][NextHook]_vars

(***************************************************************************)
(* Properties.                                                             *)
(***************************************************************************)
Loaders == {"HPDF_LoadPngImageFromMem", "HPDF_LoadJpegImageFromMem"}

\* the validator event that must precede a loader call
ValidatedBy(loader) ==
    IF loader = "HPDF_LoadPngImageFromMem" THEN "check_png_valid:ok" ELSE "check_jpeg_valid:ok"

\* C1: in a draw_image request, a PDF image loader (PNG or JPEG) is called
\* only after the validator of that format has returned success on the
\* buffer of the request.
C1_LoaderOnlyAfterValidator ==
    \A k \in 1..Len(di.trace) :
        di.trace[k] \in Loaders =>
            \E j \in 1..(k - 1) : di.trace[j] = ValidatedBy(di.trace[k])

DecoderEvents ==
    {"png_create_read_struct", "png_create_info_struct", "png_set_read_fn", "info",
     "png_set_interlace_handling", "png_read_update_info", "rows", "end",
     "png_src_read_cb", "png_error_cb"}

Events(p) == {p.trace[k] : k \in 1..Len(p.trace)}

BadSignature(b) == Len(b.head) < SigSize \/ b.head # PNG_SIG

\* C2: a buffer shorter than 8 bytes, or whose first 8 bytes differ from
\* the PNG signature, makes check_png_valid fail with 'Invalid PNG
\* signature' before any decoder structure is created and without the read
\* hook or the error hook being invoked.
C2_BadSignatureNeverReachesDecoder ==
    (png.pc # "idle" /\ BadSignature(png.buf)) =>
        /\ Events(png) \cap DecoderEvents = {}
        /\ png.pc = "returned" => png.outcome.kind = "InvalidSignature"

\* failures of check_png_valid as draw_image reports them
ValidationFailures ==
    {"PngInvalidSignature", "PngReadStructError", "PngStructsError", "PngInvalidWidth",
     "PngPngReadError"}

\* the failures of draw_image after the document was taken out of the registry
FailuresAfterRemove ==
    {"NoCurrentPage", "HexError", "InvalidImageFormat", "LoaderError"} \cup ValidationFailures

\* C3: when draw_image fails after it has taken the document out of the
\* registry (no current page, hex error, unsupported format, validation
\* failure, loader failure), at return the document is back in the registry
\* under its handle, HPDF_Page_DrawImage was not called and the page content
\* is what it was; on a validation failure no image was loaded.
C3_DrawImageFailsAtomically ==
    [][(di.pc # "returned" /\ di'.pc = "returned" /\ di'.result \in FailuresAfterRemove) =>
          /\ di'.doc = di'.handle
          /\ di'.doc \in registry'
          /\ "HPDF_Page_DrawImage" \notin Events(di')
          /\ docs'[di'.doc].drawn = di'.before.drawn
          /\ docs'[di'.doc].pages = di'.before.pages
          /\ di'.result \in ValidationFailures =>
                /\ Events(di') \cap Loaders = {}
                /\ docs'[di'.doc].images = di'.before.images]_vars

C3_Witness ==
    /\ di.pc = "returned"
    /\ di.result = "PngPngReadError"
    /\ di.doc \in registry
    /\ "remove" \in Events(di)

\* the request has reached load_image_from_hex with a tag other than PNG, JPEG
OtherFormat == "make_hex_source" \in Events(di) /\ di.format \notin {"PNG", "JPEG"}

ValidatorsAndLoaders == Loaders \cup {"check_png_valid", "check_jpeg_valid"}

\* C4 as stated: with a format tag other than "PNG" and "JPEG",
\* load_image_from_hex fails with the 'Invalid imageFormat' error, and no
\* validator and no loader is invoked.
C4_OtherFormatIsUsageError ==
    OtherFormat =>
        /\ Events(di) \cap ValidatorsAndLoaders = {}
        /\ di.pc = "returned" => di.result = "InvalidImageFormat"

\* C4 amended: with a format tag other than "PNG" and "JPEG",
\* load_image_from_hex fails without invoking a validator or a loader; the
\* failure is the 'Invalid imageFormat' error when the hex text converts,
\* and the error of the hex conversion, which runs first, when it does not.
C4_OtherFormatFailsWithoutDecoder ==
    OtherFormat =>
        /\ Events(di) \cap ValidatorsAndLoaders = {}
        /\ di.pc \notin {"check_png_valid", "load", "draw", "return"}
        /\ di.pc = "returned" =>
              di.result = IF di.hex_ok THEN "InvalidImageFormat" ELSE "HexError"

C4_Witness ==
    /\ di.pc = "returned"
    /\ di.format = "GIF"
    /\ di.hex_ok
    /\ di.result = "InvalidImageFormat"

\* C5: whenever error_cb fires in a check_jpeg_valid call, at whichever
\* decoder step, the checkpoint it jumps to has been set in that call, and
\* the call ends with the 'JPEG read error' that carries the decoder's
\* formatted message.
C5_ErrorExitJumpsToSetCheckpoint ==
    /\ \A k \in 1..Len(jpg.fired) : jpg.fired[k].jmpbuf = "set"
    /\ (jpg.fired # <<>> /\ jpg.pc = "returned") =>
          jpg.outcome = [kind |-> "JpegReadError", body |-> <<Msg(jpg.msg_code, 0, 0, 0)>>]

PngDecoderSteps ==
    {"info", "png_set_interlace_handling", "png_read_update_info", "rows", "end", "png_src_read_cb"}

\* C6: when png_error_cb fires in a check_png_valid call, raised by the
\* read hook on a shortfall or by the decoder, control resumes at the
\* checkpoint set before decoding, no decoder step runs afterwards, and the
\* call fails with a 'PNG read error' whose body is the message of that one
\* hook invocation, as accumulated in the error context.
C6_ErrorHookJumpsAndReports ==
    /\ png.pc # "undefined"
    /\ \A k \in 1..Len(png.trace) :
          png.trace[k] = "png_error_cb" =>
             /\ \E j \in 1..(k - 1) : png.trace[j] = "png_set_read_fn"
             /\ \A j \in (k + 1)..Len(png.trace) : png.trace[j] \notin PngDecoderSteps
    /\ "png_error_cb" \in Events(png) =>
          /\ Count(png.trace, "png_error_cb") = 1
          /\ png.pc \in {"catch", "returned"}
          /\ png.err_ctx = TRACEMSG(png.hook_msg)
          /\ png.pc = "returned" =>
                png.outcome = [kind |-> "PngReadError", body |-> TRACEMSG(png.hook_msg)]
    /\ png.outcome.kind = "PngReadError" => "png_error_cb" \in Events(png)

C6_Witness ==
    /\ png.pc = "returned"
    /\ png.outcome.kind = "PngReadError"
    /\ Len(png.hook_msg) = 1
    /\ png.hook_msg[1].text = "Not enough data in input PNG buffer"
    /\ Count(png.trace, "rows") = 1

\* C7: once the read struct is created, check_png_valid releases the
\* decoder's structures exactly once before it returns, on every exit path
\* (success, info struct creation failure, width rejection, error jump).
C7_PngStructsReleasedOnce ==
    /\ Count(png.trace, "png_destroy_read_struct") <= 1
    /\ (png.pc = "returned" /\ png.png_ptr # "null") =>
          /\ Count(png.trace, "png_destroy_read_struct") = 1
          /\ png.png_ptr = "freed"
          /\ png.info_ptr # "live"
          /\ png.end_info_ptr # "live"
    /\ png.png_ptr = "freed" => png.pc = "returned"

C7_Witness ==
    /\ png.pc = "returned"
    /\ png.outcome.kind = "StructsError"
    /\ png.info_ptr = "null"
    /\ png.end_info_ptr = "freed"
    /\ Count(png.trace, "png_destroy_read_struct") = 1

\* C8: check_jpeg_valid destroys the decoder session it created exactly
\* once, on the success path and on every failure path (error_cb firing at
\* any decoder step): no call is over with a live session.
C8_JpegSessionDestroyedOnce ==
    (jpg.pc \in {"returned", "undefined"} /\ jpg.cinfo # "none") =>
        /\ jpg.destroyed = 1
        /\ jpg.cinfo = "destroyed"

\* C9: the width read from the header is rejected with 'invalid image
\* width' if and only if it is greater than 65536; on rejection the row
\* buffer has not been sized and no row has been read.
C9_WidthCeiling ==
    /\ "png_get_image_width" \in Events(png) =>
          ((png.width > 65536) <=> (png.pc = "returned" /\ png.outcome.kind = "InvalidWidth"))
    /\ png.outcome.kind = "InvalidWidth" =>
          /\ "png_get_image_width" \in Events(png)
          /\ png.outcome.body = <<Msg("PNG error, invalid image width", png.buf.width, 0, 0)>>
          /\ png.row = 0
          /\ "rows" \notin Events(png)
    /\ png.pc = "read_rows" => (png.width <= 65536 /\ png.row = png.width)

C9_Witness ==
    /\ png.pc = "returned"
    /\ png.outcome.kind = "InvalidWidth"
    /\ png.width = 65537
    /\ png.buf.bodyLen = FullLen(png.buf.height)
    /\ png.buf.corrupt = "none"

\* C10: two calls of a validator on the same buffer, neither of which met
\* an allocation failure, have the same outcome.
C10_ValidatorsIdempotent ==
    /\ (first.fmt = "PNG" /\ png.pc = "returned" /\ ~first.env /\ ~png.env) =>
          png.outcome.kind = first.kind
    /\ (first.fmt = "JPEG" /\ jpg.pc = "returned" /\ ~first.env /\ ~jpg.env) =>
          jpg.outcome.kind = first.kind

\* the decoding calls of check_png_valid
IsDecodingCall(ev) ==
    ev \in {"info", "png_set_interlace_handling", "png_read_update_info", "rows", "end"}

\* C11: check_png_valid returns success only if, in this order, the header
\* info was read, interlace handling enabled and the info refreshed, every
\* row read one at a time (for an interlaced image every row of every pass
\* that the enabled interlace handling requires) and then the end of the
\* image read, without the error hook firing: no success while rows of the
\* image remain unread.
C11_SuccessOnlyAfterEveryRow ==
    png.outcome.kind = "ok" =>
        /\ SelectSeq(png.trace, IsDecodingCall) =
              <<"info", "png_set_interlace_handling", "png_read_update_info">>
              \o [k \in 1..RowsRequired(png.buf) |-> "rows"] \o <<"end">>
        /\ "png_error_cb" \notin Events(png)

\* the calls check_jpeg_valid makes on the decoder
IsJpegCall(ev) == ev \notin {"message_cb", "error_cb", "format_message"}

\* C12: check_jpeg_valid returns success if and only if header read, start
\* of decompression, row-buffer allocation, one scanline pull per iteration
\* until output_scanline reaches output_height, and finish of decompression
\* all complete without error_cb firing; warnings of the decoder go to
\* message_cb, which drops them, and never make a call fail.
C12_SuccessIffDecodedWithoutErrorExit ==
    /\ jpg.outcome.kind = "ok" <=> (jpg.pc = "returned" /\ jpg.fired = <<>>)
    /\ jpg.outcome.kind = "ok" =>
          /\ jpg.output_scanline = jpg.buf.height
          /\ SelectSeq(jpg.trace, IsJpegCall) =
                <<"jpeg_create_decompress", "jpeg_mem_src", "jpeg_read_header",
                  "jpeg_start_decompress", "alloc_sarray">>
                \o [k \in 1..jpg.buf.height |-> "jpeg_read_scanlines"]
                \o <<"jpeg_finish_decompress", "jpeg_destroy_decompress">>
    /\ (jpg.pc = "returned" /\ jpg.buf.size > 0 /\ jpg.buf.fault = "none" /\ ~jpg.env) =>
          jpg.outcome.kind = "ok"
    /\ Count(jpg.trace, "message_cb") = (IF jpg.num_warnings > 0 THEN 1 ELSE 0)

C12_Witness ==
    /\ jpg.pc = "returned"
    /\ jpg.outcome.kind = "ok"
    /\ jpg.num_warnings = 2
    /\ "message_cb" \in Events(jpg)
    /\ jpg.output_scanline = 2

\* C13: png_error_cb never returns to the decoder: every invocation finds
\* the error context, appends the message to it and leaves by the jump to
\* the checkpoint, so nothing of the decoder or of the read hook runs after
\* it; the error context pointer is present as long as the read struct
\* lives.
C13_ErrorHookNeverReturns ==
    /\ png.png_ptr = "live" => png.error_ptr
    /\ "png_src_read_cb" \in Events(png) => png.io_ptr
    /\ Len(png.err_ctx) = Count(png.trace, "png_error_cb")
    /\ \A k \in 1..Len(png.trace) :
          png.trace[k] = "png_error_cb" =>
             /\ png.jmpbuf = "set"
             /\ png.pc \in {"catch", "returned"}
             /\ \A j \in (k + 1)..Len(png.trace) : png.trace[j] = "png_destroy_read_struct"

C13_Witness ==
    /\ png.pc = "catch"
    /\ png.trace[Len(png.trace)] = "png_error_cb"
    /\ png.hook_msg = <<Msg("libpng error", 0, 0, 0)>>
    /\ png.err_ctx = TRACEMSG(png.hook_msg)
    /\ Count(png.trace, "rows") = 2

\* check_png_valid terminates, and its row loop runs height times at most
PngCallsReturn ==
    /\ (png.pc = "signature") ~> (png.pc = "returned")
    /\ [](Count(png.trace, "rows") <= png.buf.height)

\* C14: every call of check_jpeg_valid (and of check_png_valid) on a finite
\* buffer eventually returns, with success or with a failure; the scanline
\* loop ends when output_scanline reaches output_height or error_cb fires.
C14_ValidatorCallsReturn ==
    /\ (jpg.pc = "create_decompress") ~> (jpg.pc = "returned" /\ jpg.outcome.kind # "none")
    /\ (png.pc = "signature") ~> (png.pc = "returned" /\ png.outcome.kind # "none")
    /\ [](jpg.output_scanline <= jpg.output_height)

\* the outcome of check_png_valid on a buffer of 8 bytes or more, from what
\* the bytes are
PngOutcome(b) ==
    IF b.head # PNG_SIG THEN "InvalidSignature"
    ELSE IF b.bodyLen < InfoReq \/ b.corrupt = "info" THEN "PngReadError"
    ELSE IF b.width > WidthCeiling THEN "InvalidWidth"
    ELSE IF b.bodyLen < InfoReq + RowsRequired(b) * RowReq + EndReq \/ b.corrupt \in {"rows", "end"}
    THEN "PngReadError"
    ELSE "ok"

\* the outcome of check_jpeg_valid on a buffer that is not empty
JpegOutcome(b) == IF b.fault = "none" THEN "ok" ELSE "JpegReadError"

\* the call is what it is when it runs alone
PngCallAlone(p) ==
    /\ (p.pc = "returned" /\ ~p.env /\ Len(p.buf.head) = SigSize) =>
          p.outcome.kind = PngOutcome(p.buf)
    /\ p.err_ctx = (IF "png_error_cb" \in Events(p) THEN TRACEMSG(p.hook_msg) ELSE <<>>)
    /\ p.pc = "catch" => ("png_set_read_fn" \in Events(p) /\ "png_error_cb" \in Events(p))
    /\ p.outcome.kind = "PngReadError" => p.outcome.body = TRACEMSG(p.hook_msg)
    /\ p.pc # "undefined"

JpegCallAlone(j) ==
    /\ (j.pc = "returned" /\ ~j.env /\ j.buf.size > 0) => j.outcome.kind = JpegOutcome(j.buf)
    /\ j.pc = "catch" => j.fired # <<>>
    /\ \A k \in 1..Len(j.fired) :
          j.fired[k].jmpbuf = "set" <=> j.fired[k].step \notin {"create_decompress", "mem_src"}
    /\ j.outcome.kind = "JpegReadError" => j.outcome.body = <<Msg(j.msg_code, 0, 0, 0)>>

\* C15: when two validator calls (PNG and/or JPEG, on the same or on
\* different buffers) run interleaved on two threads, each call has the
\* outcome it has alone, an error jump resumes at the checkpoint of the
\* call it was raised in, and the message goes to that call's context.
C15_ValidatorsReentrant ==
    /\ PngCallAlone(png)
    /\ PngCallAlone(parked.png)
    /\ JpegCallAlone(jpg)
    /\ JpegCallAlone(parked.jpg)

C15_Witness ==
    /\ png.pc = "returned"
    /\ png.outcome.kind = "PngReadError"
    /\ parked.png.pc = "returned"
    /\ parked.png.outcome.kind = "PngReadError"
    /\ parked.png.hook_msg # png.hook_msg
    /\ "png_set_read_fn" \in Events(parked.png)

\* the bytes the source had left when the hook was entered
Remaining0 == Len(hook.data) - hook.pos0

HookOver == hook.pc \in {"returned", "jumped"} /\ ~hook.thrown

\* C16: when the source holds fewer than the requested n bytes, after the
\* hook the destination holds the bytes delivered in whole chunks in
\* [0, count) and zeros in [count, n), the source is exhausted, the
\* shortfall message carries n, the size of the last partial read and
\* count, with count + last read = bytes left at entry < n, and png_error
\* was called exactly once, with that message.
C16_ShortfallZeroFillsAndReports ==
    (HookOver /\ Remaining0 < hook.to_read) =>
        /\ hook.pc = "jumped"
        /\ \A k \in 1..hook.count : hook.out[k] = hook.data[hook.pos0 + k]
        /\ \A k \in (hook.count + 1)..hook.to_read : hook.out[k] = 0
        /\ Len(hook.out) = hook.to_read
        /\ hook.pos = Len(hook.data)
        /\ hook.errmsg = TRACEMSG(<<Msg("Not enough data in input PNG buffer",
                                        hook.to_read, hook.read, hook.count)>>)
        /\ hook.count + hook.read = Remaining0
        /\ hook.count = (Remaining0 \div BufSize) * BufSize
        /\ hook.errors = <<hook.errmsg>>
        /\ read_loop(hook.to_read, 0, Remaining0) =
              [count |-> hook.count, avail |-> 0, errmsg |-> hook.errmsg]

C16_Witness ==
    /\ hook.pc = "jumped"
    /\ ~hook.thrown
    /\ hook.to_read = 2 * BufSize + 1
    /\ hook.count = BufSize
    /\ hook.read = BufSize \div 2
    /\ hook.out[BufSize] = hook.data[hook.pos0 + BufSize]
    /\ hook.out[BufSize + 1] = 0

\* C17: for every requested count n, 0 and more than 1024 included, and a
\* source with n bytes or more left, the hook copies the next n bytes of
\* the source in order into [0, n), advances the cursor by n, takes 1024
\* bytes at most in one step, records no message and does not call
\* png_error.
C17_SufficientInputIsCopied ==
    /\ hook.read <= BufSize
    /\ (HookOver /\ Remaining0 >= hook.to_read) =>
          /\ hook.pc = "returned"
          /\ hook.out = SubSeq(hook.data, hook.pos0 + 1, hook.pos0 + hook.to_read)
          /\ hook.pos = hook.pos0 + hook.to_read
          /\ hook.count = hook.to_read
          /\ hook.errmsg = <<>>
          /\ hook.errors = <<>>
          /\ read_loop(hook.to_read, 0, Remaining0) =
                [count |-> hook.to_read, avail |-> Remaining0 - hook.to_read, errmsg |-> <<>>]

C17_Witness ==
    /\ hook.pc = "returned"
    /\ hook.to_read = 2 * BufSize + 1
    /\ hook.pos = hook.pos0 + 2 * BufSize + 1
    /\ hook.pos0 = SigSize
    /\ hook.out[2 * BufSize + 1] = hook.data[hook.pos]

ParseFailures == {"UnknownField", "MissingField"}

\* the request has a field the operation does not know, or lacks one it requires
Malformed(op, fields) ==
    \/ \E f \in fields : f \notin KnownFields(op)
    \/ \E f \in RequiredFields(op) : f \notin fields

\* C18: for every operation that takes a request object, a request with an
\* unknown field or without a required field fails before the registry is
\* touched: no document is removed or put and no PDF library call is made.
C18_MalformedRequestTouchesNothing ==
    [][/\ (rq' # rq /\ rq'.op # "none" /\ Malformed(rq'.op, rq'.fields)) =>
             /\ rq'.pc = "returned"
             /\ rq'.result \in ParseFailures
             /\ rq'.trace = <<>>
             /\ registry' = registry
             /\ docs' = docs
       /\ (di' # di /\ di'.pc # "idle" /\ Malformed("draw_image", di'.fields)) =>
             /\ di'.pc = "returned"
             /\ di'.result \in ParseFailures
             /\ di'.trace = <<>>
             /\ png' = png
             /\ registry' = registry
             /\ docs' = docs]_vars

C18_Witness ==
    /\ rq.pc = "returned"
    /\ rq.op = "save_to_file"
    /\ rq.fields = {"pdfDocumentHandle", "path", "extra"}
    /\ rq.result = "UnknownField"
    /\ rq.handle \in registry

\* one complete pair of page parameters and nothing of the other pair
ExactlyOnePair(r) ==
    \/ r.format # "" /\ r.orient # "" /\ r.width = -1 /\ r.height = -1
    \/ r.width # -1 /\ r.height # -1 /\ r.format = "" /\ r.orient = ""

\* C19: add_page accepts the parameters of a request with a document
\* handle if and only if it has both format and orientation and neither
\* width nor height, or both width and height and neither format nor
\* orientation; every other combination is rejected before the registry is
\* touched, and with an unsupported format or orientation no page is added.
C19_AddPageAcceptsExactlyOnePair ==
    [][(rq' # rq /\ rq'.op = "add_page" /\ rq'.fields = AddPageFields(rq'.format, rq'.orient,
                                                                    rq'.width, rq'.height)) =>
          /\ rq'.result \notin ParseFailures
          /\ rq'.result = "RejectedParameters" <=> ~ExactlyOnePair(rq')
          /\ ~ExactlyOnePair(rq') =>
                /\ rq'.pc = "returned"
                /\ rq'.trace = <<>>
                /\ registry' = registry
                /\ docs' = docs
          /\ (ExactlyOnePair(rq') /\ rq.pc = "idle") => rq'.pc = "remove"
          /\ (rq'.format \notin PageFormats \cup {""} \/ rq'.orient \notin PageOrientations \cup {""}) =>
                /\ "HPDF_AddPage" \notin Events(rq')
                /\ docs' = docs
                /\ rq'.result # "ok"]_vars

C19_Witness ==
    /\ rq.pc = "returned"
    /\ rq.op = "add_page"
    /\ rq.result = "RejectedParameters"
    /\ rq.format = "A4"
    /\ rq.orient = "PORTRAIT"
    /\ rq.width = 100
    /\ rq.height = -1
    /\ rq.handle \in registry

DrawingOps == {"write_text", "write_text_inside_rectangle", "draw_line", "draw_rectangle"}

\* drawing, image validation and image loading
DrawingEvents ==
    {"HPDF_Page_TextOut", "HPDF_Page_TextRect", "HPDF_Page_LineTo", "HPDF_Page_Rectangle",
     "HPDF_Page_DrawImage", "make_hex_source", "check_png_valid"} \cup Loaders

\* the request was made on a document of the registry that had no page
OnPagelessDocument(r) == r.pc = "returned" /\ "remove" \in Events(r) /\ r.before.pages = 0

Held(r, d) ==
    {doc \in Docs :
        \/ r.deferred /\ r.doc = doc
        \/ r.op = "destroy_document" /\ r.pc = "call" /\ r.doc = doc
        \/ d.deferred /\ d.doc = doc}

HeldByRunning == Held(rq, di)

HeldByParked == Held(parked.rq, parked.di)

\* the running thread does the reg->remove of its request in this step
RemoveStep == rq.pc = "remove" /\ rq'.pc # "remove" /\ parked' = parked

\* the request ends in this step with the invalid-handle error and has
\* touched neither the registry nor a document
FailsInvalidHandle ==
    /\ rq'.pc = "returned"
    /\ rq'.result = "InvalidHandle"
    /\ rq'.trace = rq.trace
    /\ UNCHANGED <<registry, docs>>

\* C21: under any interleaving of the requests of two threads, a document
\* that an operation has removed is out of the registry until the operation
\* puts it back, at most one in-flight operation holds a given document,
\* and an operation that asks for a handle another in-flight operation
\* holds fails at once with the invalid-handle error, with no call on the
\* document and without waiting.
C21_CheckOutIsMutualExclusion ==
    /\ [](/\ HeldByRunning \cap HeldByParked = {}
          /\ (HeldByRunning \cup HeldByParked) \cap registry = {}
          /\ Cardinality(HeldByRunning) <= 1
          /\ Cardinality(HeldByParked) <= 1)
    /\ [][(RemoveStep /\ rq.handle \in HeldByParked) => FailsInvalidHandle]_vars

C21_Witness ==
    /\ rq.pc = "returned"
    /\ rq.result = "InvalidHandle"
    /\ rq.before.state = "alive"
    /\ rq.handle \in HeldByParked
    /\ ~docs[rq.handle].reissued
    /\ parked.rq.op # rq.op

Alive == {doc \in Docs : docs[doc].state = "alive"}

Completed(r) == r.pc \in {"idle", "returned"}

\* a request that took a document out and is not destroy_document has put
\* it back exactly once when it is over, and not before
PutBackOnce(r) ==
    "remove" \in Events(r) =>
        IF r.pc = "returned"
        THEN Count(r.trace, "put") = 1 /\ r.trace[Len(r.trace)] = "put" /\ r.doc \in registry
        ELSE Count(r.trace, "put") = 0 /\ r.doc \notin registry

\* C22: when no operation is in flight the registry holds exactly the
\* documents create_document returned that no destroy_document has freed;
\* every operation but destroy_document that removed a document puts that
\* document back exactly once on every exit, return or exception.
C22_RegistryConservation ==
    /\ (Completed(rq) /\ Completed(di)) => registry = Alive
    /\ registry \subseteq Alive
    /\ rq.op # "destroy_document" => PutBackOnce(rq)
    /\ PutBackOnce(di)
    /\ rq.op = "destroy_document" => Count(rq.trace, "put") = 0 /\ rq.doc \notin registry

C22_Witness ==
    /\ rq.pc = "returned"
    /\ rq.result = "PdfError"
    /\ "put" \in Events(rq)
    /\ \E doc \in Docs : docs[doc].state = "freed"
    /\ registry = {rq.doc}

\* the running thread's request makes a call of the PDF library in this step
LibraryCallStep == rq.pc = "call" /\ Len(rq'.trace) > Len(rq.trace) /\ parked' = parked

\* a call of the PDF library is made on a document that is alive and that
\* only the calling operation holds; HPDF_Free leaves it freed
CallsOnHeldDocument ==
    LibraryCallStep =>
        /\ docs[rq.doc].state = "alive"
        /\ rq.doc \in HeldByRunning
        /\ rq.doc \notin HeldByParked
        /\ rq.doc \notin registry

\* a destroy_document that finds the handle held by the other thread's
\* operation fails and frees nothing
RacingDestroyFails ==
    (RemoveStep /\ rq.op = "destroy_document" /\ rq.handle \in HeldByParked) => FailsInvalidHandle

\* C23 as stated: a document is freed at most once and never while another
\* operation holds it; once a destroy_document on a handle has succeeded,
\* every later operation with that handle fails with the invalid-handle
\* error; a destroy_document racing with an in-flight operation on the
\* handle fails without freeing anything.
C23_DestroyedHandleStaysInvalid ==
    [][/\ CallsOnHeldDocument
       /\ RacingDestroyFails
       /\ (RemoveStep /\ (docs[rq.handle].state = "freed" \/ docs[rq.handle].reissued))
             => FailsInvalidHandle]_vars

\* C23 amended: a document is freed at most once and never while another
\* operation holds it, and no call of the PDF library is made on a freed
\* document; once a destroy_document on a handle has succeeded, operations
\* with that handle fail with the invalid-handle error until a later
\* create_document returns the handle again; a destroy_document racing with
\* an in-flight operation on the handle fails without freeing anything.
C23_FreedOnceAndNeverWhileHeld ==
    [][/\ CallsOnHeldDocument
       /\ RacingDestroyFails
       /\ (RemoveStep /\ docs[rq.handle].state = "freed") => FailsInvalidHandle]_vars

C23_Witness ==
    /\ rq.op = "destroy_document"
    /\ rq.pc = "returned"
    /\ rq.result = "InvalidHandle"
    /\ rq.before.state = "alive"
    /\ rq.handle \in HeldByParked
    /\ docs[rq.handle].state = "alive"
    /\ ~docs[rq.handle].reissued

====
